---- MODULE Spec2Model ----
(***************************************************************************)
(* kubeswitch (src/main.go): load a kubeconfig, switch the current context *)
(* and namespace either from the command line (quickSwitch) or from an     *)
(* interactive tree of contexts and namespaces.                            *)
(*                                                                         *)
(* Strings are sequences of characters, so that strings.Split is computed  *)
(* and not assumed.  The kubeconfig file is the pair read by both readers  *)
(* of the code: the YAML list order (loadConfig) and the name-keyed map    *)
(* (clientcmd RawConfig, switchContext).                                   *)
(***************************************************************************)
EXTENDS Integers, Sequences, FiniteSets, TLC

\* ------------------------------------------------------------------ bounds
MaxContexts == 2
MaxArgs == 3
MaxArgLen == 3
MaxToggles == 3

\* ------------------------------------------------------------ input sets
Sep == "/"
Chars == {"x", Sep}

StrSet(n) == UNION {[1..k -> Chars] : k \in 0..n}

EmptyStr == <<>>
CtxNames == {<<"x">>, <<"x", "x">>, <<"x", Sep, "x">>}

DistinctSeqs(S, n) ==
  UNION {{q \in [1..k -> S] : \A a, b \in 1..k : a # b => q[a] # q[b]} : k \in 0..n}

Range(q) == {q[k] : k \in 1..Len(q)}

\* What each context's cluster answers to a successful namespace listing.
ClusterNamespaces(context) ==
  CASE context = <<"x">> -> <<<<"x", "x">>, <<"x">>>>
    [] context = <<"x", "x">> -> <<<<"x">>>>
    [] OTHER -> <<>>

ProgName == <<"k">>

\* The namespace the file records for each context.
RecordedNamespace(context) ==
  CASE context = <<"x">> -> <<"x">>
    [] context = <<"x", "x">> -> <<"x", "x">>
    [] OTHER -> <<"x">>

\* The strings a first argument, or a name asked of contextExists, is drawn from.
ArgStrings == StrSet(MaxArgLen)

\* Positional arguments: any first argument, further ones a namespace name.
ArgLists ==
  {<<>>} \cup
  UNION {{<<a>> \o [j \in 1..k |-> <<"x">>] : a \in ArgStrings}
           : k \in 0..(MaxArgs - 1)}

ValidFiles ==
  UNION {{[kind |-> "valid", current |-> c, order |-> o,
           ns |-> [n \in Range(o) |-> RecordedNamespace(n)]]
            : c \in CtxNames \cup {EmptyStr}}
           : o \in DistinctSeqs(CtxNames, MaxContexts)}

BrokenFiles ==
  {[kind |-> k, current |-> EmptyStr, order |-> <<>>, ns |-> <<>>]
     : k \in {"missing", "empty", "malformed"}}

\* ----------------------------------------------------------------- state
VARIABLES
  file,          \* the persisted kubeconfig ($KUBECONFIG)
  osArgs,        \* os.Args, program name first
  kubeconfig,    \* the copy loaded at startup
  pc,            \* "loadConfig", "quickSwitch", "buildTree", "run", "exited"
  exit,          \* "none", "ok" (status 0), "fatal" (log.Fatalln), "panic"
  nodes,         \* the context nodes under the root, in kubeconfig order
  expandedNode,  \* 0: the placeholder of line 169, else a context node
  highlightNode, \* <<0, 0>>: the root, else <<context node, child>>
  currentNode,   \* what the tree view was told to highlight (line 225)
  stopped,       \* app.Stop() was called
  listCalls,     \* per context node, namespace listings issued
  okCalls,       \* per context node, listings that succeeded
  switchCalls,   \* the referenceHelper of every switchContext call, in order
  toggles,       \* context-node selections handled
  last           \* the last event handled

vars == <<file, osArgs, kubeconfig, pc, exit, nodes, expandedNode, highlightNode,
          currentNode, stopped, listCalls, okCalls, switchCalls, toggles, last>>

NoEvent == [op |-> "none", node |-> 0, outcome |-> "none", was |-> {}, child |-> 0]

Root == <<0, 0>>

\* ------------------------------------------------------------- strings.Split
RECURSIVE Split(_, _)
Split(s, sep) ==
  IF \A k \in 1..Len(s) : s[k] # sep
  THEN <<s>>
  ELSE LET p == CHOOSE k \in 1..Len(s) :
                  s[k] = sep /\ \A j \in 1..(k - 1) : s[j] # sep
       IN <<SubSeq(s, 1, p - 1)>> \o Split(SubSeq(s, p + 1, Len(s)), sep)

\* ------------------------------------------------------------- contextExists
\* Variant: the loop returns after its first entry.
contextExists_FirstOnly(cfg, context) ==
  Len(cfg.Contexts) > 0 /\ context = cfg.Contexts[1].Name

\* Variant: the loop stops one entry early.
contextExists_SkipsLast(cfg, context) ==
  \E k \in 1..(Len(cfg.Contexts) - 1) : context = cfg.Contexts[k].Name

contextExists(cfg, context) ==
  \E k \in 1..Len(cfg.Contexts) : context = cfg.Contexts[k].Name

\* ------------------------------------------------------------- loadConfig
\* yaml.Unmarshal into the config struct: the context list in document order.
Unmarshal(f) ==
  [ActiveContext |-> f.current,
   Contexts |-> [k \in 1..Len(f.order) |->
                   [Name |-> f.order[k], ActiveNamespace |-> f.ns[f.order[k]]]]]

EmptyConfig == [ActiveContext |-> EmptyStr, Contexts |-> <<>>]

Init ==
  /\ file \in ValidFiles \cup BrokenFiles
  /\ osArgs \in {<<ProgName>> \o a : a \in ArgLists}
  /\ kubeconfig = EmptyConfig
  /\ pc = "loadConfig"
  /\ exit = "none"
  /\ nodes = <<>>
  /\ expandedNode = 0
  /\ highlightNode = Root
  /\ currentNode = Root
  /\ stopped = FALSE
  /\ listCalls = <<>>
  /\ okCalls = <<>>
  /\ switchCalls = <<>>
  /\ toggles = 0
  /\ last = NoEvent

\* Variant: the length check of lines 115-117 is missing (yaml.Unmarshal of
\* no bytes leaves the zero config and reports no error).
loadConfig_NoEmptyCheck ==
  /\ pc = "loadConfig"
  /\ IF file.kind \in {"valid", "empty"}
     THEN /\ kubeconfig' = Unmarshal(file)
          /\ pc' = IF Len(osArgs) > 1 THEN "quickSwitch" ELSE "buildTree"
          /\ exit' = exit
     ELSE /\ kubeconfig' = kubeconfig
          /\ pc' = "exited"
          /\ exit' = "fatal"
  /\ last' = [op |-> "loadConfig", node |-> 0, outcome |-> file.kind,
              was |-> {}, child |-> 0]
  /\ UNCHANGED <<file, osArgs, nodes, expandedNode, highlightNode, currentNode,
                 stopped, listCalls, okCalls, switchCalls, toggles>>

\* Lines 109-122: a file that cannot be read, is empty or does not parse is
\* fatal.
loadConfig ==
  /\ pc = "loadConfig"
  /\ IF file.kind = "valid"
     THEN /\ kubeconfig' = Unmarshal(file)
          /\ pc' = IF Len(osArgs) > 1 THEN "quickSwitch" ELSE "buildTree"
          /\ exit' = exit
     ELSE /\ kubeconfig' = kubeconfig
          /\ pc' = "exited"
          /\ exit' = "fatal"
  /\ last' = [op |-> "loadConfig", node |-> 0, outcome |-> file.kind, was |-> {}, child |-> 0]
  /\ UNCHANGED <<file, osArgs, nodes, expandedNode, highlightNode, currentNode,
                 stopped, listCalls, okCalls, switchCalls, toggles>>

\* ------------------------------------------------------------ switchContext
\* How the two file accesses of switchContext end (lines 94 and 102).
SwitchIO == {"ok", "readFail", "writeFail"}

\* Variant: line 99 is missing.
ModifiedConfig_NoNamespace(f, rh) == [f EXCEPT !.current = rh.context]

\* Lines 98-99 on the raw config: the current context and the namespace of
\* the map entry of rh.context; every other entry is written back as read.
ModifiedConfig(f, rh) ==
  [f EXCEPT !.current = rh.context, !.ns[rh.context] = rh.namespace]

\* The file and the way the call ends: "returned", "fatal" (log.Fatalln) or
\* "panic" (config.Contexts[rh.context] is the nil entry of a missing key).
switchContext(f, rh, io) ==
  IF io = "readFail" THEN [file |-> f, end |-> "fatal"]
  ELSE IF rh.context \notin DOMAIN f.ns THEN [file |-> f, end |-> "panic"]
  ELSE IF io = "writeFail" THEN [file |-> f, end |-> "fatal"]
  ELSE [file |-> ModifiedConfig(f, rh), end |-> "returned"]

\* -------------------------------------------------------------- quickSwitch
NoTarget == [found |-> FALSE, rh |-> [context |-> EmptyStr, namespace |-> EmptyStr]]

Target(c, n) == [found |-> TRUE, rh |-> [context |-> c, namespace |-> n]]

\* Variant: the fields of the referenceHelper of line 132 are swapped.
quickSwitchTarget_Swapped(args, cfg) ==
  IF Len(args) = 1 THEN NoTarget
  ELSE LET s == Split(args[2], Sep) IN
       IF Len(args) = 2 /\ Len(s) = 1
         THEN Target(args[2], cfg.ActiveContext)
       ELSE IF Len(args) = 2 /\ Len(s) = 2 /\ contextExists(cfg, s[1])
         THEN Target(s[1], s[2])
       ELSE IF Len(args) = 3 /\ contextExists(cfg, args[2])
         THEN Target(args[2], args[3])
       ELSE NoTarget

\* Variant: line 141 accepts any surplus of arguments.
quickSwitchTarget_Surplus(args, cfg) ==
  IF Len(args) = 1 THEN NoTarget
  ELSE LET s == Split(args[2], Sep) IN
       IF Len(args) = 2 /\ Len(s) = 1
         THEN Target(cfg.ActiveContext, args[2])
       ELSE IF Len(args) = 2 /\ Len(s) = 2 /\ contextExists(cfg, s[1])
         THEN Target(s[1], s[2])
       ELSE IF Len(args) >= 3 /\ contextExists(cfg, args[2])
         THEN Target(args[2], args[3])
       ELSE NoTarget

\* The referenceHelper quickSwitch hands to switchContext, if any.  args is
\* os.Args: args[1] is the program name, args[2] is os.Args[1].
quickSwitchTarget(args, cfg) ==
  IF Len(args) = 1 THEN NoTarget
  ELSE LET s == Split(args[2], Sep) IN
       IF Len(args) = 2 /\ Len(s) = 1
         THEN Target(cfg.ActiveContext, args[2])
       ELSE IF Len(args) = 2 /\ Len(s) = 2 /\ contextExists(cfg, s[1])
         THEN Target(s[1], s[2])
       ELSE IF Len(args) = 3 /\ contextExists(cfg, args[2])
         THEN Target(args[2], args[3])
       ELSE NoTarget

\* Variant: the os.Exit(0) after switchContext is missing.
quickSwitch_NoExit(io) ==
  /\ pc = "quickSwitch"
  /\ LET t == quickSwitchTarget(osArgs, kubeconfig)
         r == switchContext(file, t.rh, io)
     IN IF t.found
        THEN /\ file' = r.file
             /\ switchCalls' = Append(switchCalls, t.rh)
             /\ pc' = IF r.end = "returned" THEN "buildTree" ELSE "exited"
             /\ exit' = IF r.end = "returned" THEN "none" ELSE r.end
             /\ last' = [op |-> "quickSwitch", node |-> 0, outcome |-> r.end,
                         was |-> {}, child |-> 0]
        ELSE /\ io = "ok"
             /\ pc' = "buildTree"
             /\ last' = [op |-> "quickSwitch", node |-> 0, outcome |-> "noTarget",
                         was |-> {}, child |-> 0]
             /\ UNCHANGED <<file, switchCalls, exit>>
  /\ UNCHANGED <<osArgs, kubeconfig, nodes, expandedNode, highlightNode,
                 currentNode, stopped, listCalls, okCalls, toggles>>

quickSwitch(io) ==
  /\ pc = "quickSwitch"
  /\ LET t == quickSwitchTarget(osArgs, kubeconfig)
         r == switchContext(file, t.rh, io)
     IN IF t.found
        THEN /\ file' = r.file
             /\ switchCalls' = Append(switchCalls, t.rh)
             /\ pc' = "exited"
             /\ exit' = IF r.end = "returned" THEN "ok" ELSE r.end
             /\ last' = [op |-> "quickSwitch", node |-> 0, outcome |-> r.end, was |-> {}, child |-> 0]
        ELSE /\ io = "ok"
             /\ pc' = "buildTree"
             /\ last' = [op |-> "quickSwitch", node |-> 0, outcome |-> "noTarget", was |-> {}, child |-> 0]
             /\ UNCHANGED <<file, switchCalls, exit>>
  /\ UNCHANGED <<osArgs, kubeconfig, nodes, expandedNode, highlightNode,
                 currentNode, stopped, listCalls, okCalls, toggles>>

\* ------------------------------------------- getNamespacesInContextsCluster
\* How one listing ends: the client config cannot be built (invalid, or any
\* other error), the clientset cannot be built, the List call fails with an
\* url.Error, a StatusError or another error, or it succeeds.
ListOutcomes ==
  {"ok", "configInvalid", "configOther", "clientset", "urlError", "statusError",
   "otherError"}

NoError == ""

getNamespacesInContextsCluster(context, outcome) ==
  CASE outcome = "configInvalid" ->
         [end |-> "returned", items |-> <<>>, err |-> "error in config file"]
    [] outcome \in {"configOther", "clientset"} ->
         [end |-> "fatal", items |-> <<>>, err |-> NoError]
    [] outcome = "urlError" ->
         [end |-> "returned", items |-> <<>>, err |-> "unreachable"]
    [] outcome = "statusError" ->
         [end |-> "returned", items |-> <<>>, err |-> "error from api: status"]
    [] outcome = "otherError" ->
         [end |-> "returned", items |-> <<>>, err |-> "error"]
    [] OTHER ->
         [end |-> "returned", items |-> ClusterNamespaces(context), err |-> NoError]

\* --------------------------------------------------------------- the tree
\* A node's label is " " + name + text; text is the part the code appends.
PlainText == ""
ActiveText == " (active)"
ErrorText(err) == " (" \o err \o ")"

\* Lines 174-180: a context node as the loop of main builds it.
NewContextNode(context, cfg) ==
  [expanded |-> FALSE,
   color |-> IF context.Name = cfg.ActiveContext THEN "green" ELSE "white",
   text |-> IF context.Name = cfg.ActiveContext THEN ActiveText ELSE PlainText,
   children |-> <<>>]

buildTree ==
  /\ pc = "buildTree"
  /\ nodes' = [k \in 1..Len(kubeconfig.Contexts) |->
                 NewContextNode(kubeconfig.Contexts[k], kubeconfig)]
  /\ expandedNode' = 0
  /\ highlightNode' = Root
  /\ currentNode' = Root
  /\ listCalls' = [k \in 1..Len(kubeconfig.Contexts) |-> 0]
  /\ okCalls' = [k \in 1..Len(kubeconfig.Contexts) |-> 0]
  /\ pc' = "run"
  /\ last' = [op |-> "buildTree", node |-> 0, outcome |-> "none", was |-> {}, child |-> 0]
  /\ UNCHANGED <<file, osArgs, kubeconfig, exit, stopped, switchCalls, toggles>>

\* Lines 184-194: colour and label after the listing.
Paint(node, context, err, cfg) ==
  IF err # NoError
    THEN [node EXCEPT !.color = "red", !.text = ErrorText(err)]
  ELSE IF context.Name = cfg.ActiveContext
    THEN [node EXCEPT !.color = "green", !.text = ActiveText]
  ELSE [node EXCEPT !.color = "turquoise"]

\* Line 195.
Flip(node) == [node EXCEPT !.expanded = ~node.expanded]

\* Variant: line 198 is missing.
CollapseExpanded_Never(ns, i, en) == ns

\* Lines 197-200: the nodes after expandedNode.Collapse(); the placeholder
\* (0) is no node of the tree.
CollapseExpanded(ns, i, en) ==
  IF ns[i].expanded /\ en # i /\ en # 0
  THEN [ns EXCEPT ![en].expanded = FALSE]
  ELSE ns

\* Variant: line 199 is missing.
NextExpandedNode_Stale(ns, i, en) == en

\* Lines 197-200: expandedNode after the handler.
NextExpandedNode(ns, i, en) ==
  IF ns[i].expanded /\ en # i THEN i ELSE en

\* Variant: line 204 stores the context's recorded namespace.
NewNamespaceNode_RecordedRef(context, name) ==
  [text |-> name,
   reference |-> [context |-> context.Name,
                  namespace |-> context.Attributes.ActiveNamespace],
   color |-> IF name = context.Attributes.ActiveNamespace THEN "green" ELSE "white"]

\* Lines 203-207: one namespace node; its label is " " + text.
NewNamespaceNode(context, name) ==
  [text |-> name,
   reference |-> [context |-> context.Name, namespace |-> name],
   color |-> IF name = context.Attributes.ActiveNamespace THEN "green" ELSE "white"]

\* Lines 202-216: the children of the node after the loop.
AddChildren(children, context, items) ==
  children \o [k \in 1..Len(items) |-> NewNamespaceNode(context, items[k])]

\* Lines 206-209: highlightNode after the loop (the last match wins).
NextHighlight(hl, i, had, context, items) ==
  LET hits == {k \in 1..Len(items) : items[k] = context.Attributes.ActiveNamespace}
  IN IF hits = {} THEN hl
     ELSE <<i, had + (CHOOSE k \in hits : \A j \in hits : j <= k)>>

\* The loaded Context as the handler sees it (GetReference).
Reference(k) ==
  [Name |-> kubeconfig.Contexts[k].Name,
   Attributes |-> [ActiveNamespace |-> kubeconfig.Contexts[k].ActiveNamespace]]

Expanded(ns) == {k \in 1..Len(ns) : ns[k].expanded}

\* Context-node selections explored in one session; a session that begins
\* with arguments quickSwitch does not recognise is followed for one.
ToggleBudget(args) == IF Len(args) > 1 THEN 1 ELSE MaxToggles

\* Variant: selecting a context node also makes it the current context of
\* the file.
contextSelected_Switching(i, outcome) ==
  /\ pc = "run"
  /\ i \in 1..Len(nodes)
  /\ toggles < ToggleBudget(osArgs)
  /\ LET context == Reference(i)
         r == getNamespacesInContextsCluster(context.Name, outcome)
         flipped == [nodes EXCEPT ![i] = Flip(Paint(nodes[i], context, r.err, kubeconfig))]
         collapsed == CollapseExpanded(flipped, i, expandedNode)
     IN /\ listCalls' = [listCalls EXCEPT ![i] = @ + 1]
        /\ last' = [op |-> "toggle", node |-> i, outcome |-> outcome,
                    was |-> Expanded(nodes), child |-> 0]
        /\ IF r.end = "fatal"
           THEN /\ pc' = "exited"
                /\ exit' = "fatal"
                /\ UNCHANGED <<nodes, expandedNode, highlightNode, okCalls>>
           ELSE /\ nodes' = [collapsed EXCEPT ![i].children =
                               AddChildren(nodes[i].children, context, r.items)]
                /\ expandedNode' = NextExpandedNode(flipped, i, expandedNode)
                /\ highlightNode' = NextHighlight(highlightNode, i,
                                      Len(nodes[i].children), context, r.items)
                /\ okCalls' = [okCalls EXCEPT ![i] = IF r.err = NoError THEN @ + 1 ELSE @]
                /\ UNCHANGED <<pc, exit>>
  /\ toggles' = toggles + 1
  /\ file' = [file EXCEPT !.current = kubeconfig.Contexts[i].Name]
  /\ UNCHANGED <<osArgs, kubeconfig, currentNode, stopped, switchCalls>>

\* Lines 181-217: the SetSelectedFunc of context node i.
contextSelected(i, outcome) ==
  /\ pc = "run"
  /\ i \in 1..Len(nodes)
  /\ toggles < ToggleBudget(osArgs)
  /\ LET context == Reference(i)
         r == getNamespacesInContextsCluster(context.Name, outcome)
         flipped == [nodes EXCEPT ![i] = Flip(Paint(nodes[i], context, r.err, kubeconfig))]
         collapsed == CollapseExpanded(flipped, i, expandedNode)
     IN /\ listCalls' = [listCalls EXCEPT ![i] = @ + 1]
        /\ last' = [op |-> "toggle", node |-> i, outcome |-> outcome,
                    was |-> Expanded(nodes), child |-> 0]
        /\ IF r.end = "fatal"
           THEN /\ pc' = "exited"
                /\ exit' = "fatal"
                /\ UNCHANGED <<nodes, expandedNode, highlightNode, okCalls>>
           ELSE /\ nodes' = [collapsed EXCEPT ![i].children =
                               AddChildren(nodes[i].children, context, r.items)]
                /\ expandedNode' = NextExpandedNode(flipped, i, expandedNode)
                /\ highlightNode' = NextHighlight(highlightNode, i,
                                      Len(nodes[i].children), context, r.items)
                /\ okCalls' = [okCalls EXCEPT ![i] = IF r.err = NoError THEN @ + 1 ELSE @]
                /\ UNCHANGED <<pc, exit>>
  /\ toggles' = toggles + 1
  /\ UNCHANGED <<file, osArgs, kubeconfig, currentNode, stopped, switchCalls>>

\* Lines 211-214: the SetSelectedFunc of child k of context node i; Run then
\* returns and main ends.
namespaceSelected(i, k, io) ==
  /\ pc = "run"
  /\ i \in 1..Len(nodes)
  /\ k \in 1..Len(nodes[i].children)
  /\ LET rh == nodes[i].children[k].reference
         r == switchContext(file, rh, io)
     IN /\ stopped' = TRUE
        /\ switchCalls' = Append(switchCalls, rh)
        /\ file' = r.file
        /\ exit' = IF r.end = "returned" THEN "ok" ELSE r.end
        /\ last' = [op |-> "select", node |-> i, outcome |-> r.end,
                    was |-> Expanded(nodes), child |-> k]
  /\ pc' = "exited"
  /\ UNCHANGED <<osArgs, kubeconfig, nodes, expandedNode, highlightNode,
                 currentNode, listCalls, okCalls, toggles>>

\* ================================================================ properties
ContextNames(cfg) == {cfg.Contexts[k].Name : k \in 1..Len(cfg.Contexts)}

SepPositions(s) == {k \in 1..Len(s) : s[k] = Sep}

ListErrors == {"configInvalid", "urlError", "statusError", "otherError"}

NamespacesOf(children) == [k \in 1..Len(children) |-> children[k].reference.namespace]

\* C1: at most one context node is expanded, and a toggle that expands a node
\* while another one is expanded leaves exactly the toggled node expanded.
C1_AtMostOneExpanded ==
  /\ Cardinality(Expanded(nodes)) <= 1
  /\ (last.op = "toggle" /\ pc = "run" /\ last.was # {} /\ last.node \notin last.was)
       => Expanded(nodes) = {last.node}

C1_Witness ==
  /\ last.op = "toggle"
  /\ pc = "run"
  /\ last.was # {}
  /\ last.node \notin last.was
  /\ last.outcome \in ListErrors
  /\ Expanded(nodes) = {last.node}

\* C2: a toggle on a context node that a listing has populated issues no
\* namespace listing and leaves the node's children as they are.
C2_NoListingOncePopulated ==
  [][\A i \in 1..Len(nodes) :
       okCalls[i] > 0 => /\ listCalls'[i] = listCalls[i]
                         /\ nodes'[i].children = nodes[i].children]_vars

\* C3: the children of a context node are one namespace node per element of
\* the cluster's list, in its order, however often the node was toggled.
C3_ChildrenAreTheListing ==
  \A i \in 1..Len(nodes) :
    NamespacesOf(nodes[i].children) =
      IF okCalls[i] > 0 THEN ClusterNamespaces(kubeconfig.Contexts[i].Name) ELSE <<>>

\* C4: a switchContext call that returns, for a context of the file, leaves
\* the file with that current context and that namespace for it, the same
\* contexts, and every other context's namespace as it was.
C4_SwitchWritesOnlyTarget ==
  [][(switchCalls' # switchCalls /\ exit' = "ok") =>
       LET rh == switchCalls'[Len(switchCalls')]
       IN /\ rh.context \in DOMAIN file.ns
          /\ file'.current = rh.context
          /\ file'.ns[rh.context] = rh.namespace
          /\ DOMAIN file'.ns = DOMAIN file.ns
          /\ \A c \in DOMAIN file.ns : c # rh.context => file'.ns[c] = file.ns[c]
          /\ file'.order = file.order
          /\ file'.kind = file.kind]_vars

C4_Witness ==
  /\ last.op \in {"quickSwitch", "select"}
  /\ exit = "ok"
  /\ Len(file.order) = 2
  /\ LET rh == switchCalls[Len(switchCalls)]
     IN /\ file.current = rh.context
        /\ file.ns[rh.context] = rh.namespace
        /\ rh.namespace # RecordedNamespace(rh.context)
        /\ kubeconfig.ActiveContext # rh.context

\* C5: one argument with a separator gives the target (part1, part2) exactly
\* when it has one separator, both parts are non-empty and part1 is a context
\* of the configuration; otherwise nothing is switched and the tree is built.
C5_OneArgWithSeparator ==
  (last.op = "quickSwitch" /\ Len(osArgs) = 2 /\ SepPositions(osArgs[2]) # {}) =>
    LET a == osArgs[2]
        p == CHOOSE k \in SepPositions(a) : \A j \in SepPositions(a) : k <= j
        part1 == SubSeq(a, 1, p - 1)
        part2 == SubSeq(a, p + 1, Len(a))
    IN IF /\ Cardinality(SepPositions(a)) = 1
          /\ part1 # EmptyStr
          /\ part2 # EmptyStr
          /\ part1 \in ContextNames(kubeconfig)
       THEN switchCalls = <<[context |-> part1, namespace |-> part2]>>
       ELSE switchCalls = <<>> /\ pc = "buildTree" /\ exit = "none"

\* C6: one argument without a separator switches to (the loaded active
\* context, the argument).
C6_BareNamespace ==
  (last.op = "quickSwitch" /\ Len(osArgs) = 2 /\ SepPositions(osArgs[2]) = {}) =>
    switchCalls = <<[context |-> kubeconfig.ActiveContext, namespace |-> osArgs[2]]>>

C6_Witness ==
  /\ last.op = "quickSwitch"
  /\ Len(osArgs) = 2
  /\ SepPositions(osArgs[2]) = {}
  /\ exit = "ok"
  /\ file.ns[kubeconfig.ActiveContext] = osArgs[2]
  /\ osArgs[2] # RecordedNamespace(kubeconfig.ActiveContext)

\* C7: two arguments whose first is a context of the configuration switch to
\* (first argument, second argument).
C7_TwoArgs ==
  (last.op = "quickSwitch" /\ Len(osArgs) = 3 /\ osArgs[2] \in ContextNames(kubeconfig)) =>
    switchCalls = <<[context |-> osArgs[2], namespace |-> osArgs[3]]>>

C7_Witness ==
  /\ last.op = "quickSwitch"
  /\ Len(osArgs) = 3
  /\ Len(kubeconfig.Contexts) = 2
  /\ osArgs[2] = kubeconfig.Contexts[2].Name
  /\ SepPositions(osArgs[2]) # {}
  /\ exit = "ok"
  /\ file.current = osArgs[2]

\* C8: no arguments, two arguments whose first is no context, or three or
\* more arguments: nothing is switched, the file stays as it is, the process
\* does not end, and control is at the construction of the tree.
C8_Unrecognised ==
  [][(/\ file.kind = "valid"
      /\ \/ pc = "loadConfig" /\ Len(osArgs) = 1
         \/ pc = "quickSwitch" /\ Len(osArgs) = 3
                               /\ osArgs[2] \notin ContextNames(kubeconfig)
         \/ pc = "quickSwitch" /\ Len(osArgs) >= 4)
       => /\ pc' = "buildTree"
          /\ exit' = "none"
          /\ switchCalls' = <<>>
          /\ file' = file]_vars

C8_Witness ==
  /\ last.op = "quickSwitch"
  /\ last.outcome = "noTarget"
  /\ Len(osArgs) >= 4
  /\ osArgs[2] \in ContextNames(kubeconfig)
  /\ pc = "buildTree"

\* C9: a switchContext call for a context the file does not hold ends in a
\* reported configuration error and leaves the file as it is.
C9_AbsentContextIsConfigError ==
  [][(switchCalls' # switchCalls
      /\ switchCalls'[Len(switchCalls')].context \notin DOMAIN file.ns)
       => exit' = "fatal" /\ file' = file]_vars

\* C10: after a failed listing the context node is in the error state and
\* has no children; after a successful listing that follows a failed one its
\* children are the namespaces returned.
C10_FailedThenPopulated ==
  (last.op = "toggle" /\ pc = "run") =>
    LET i == last.node IN
    /\ last.outcome \in ListErrors =>
         nodes[i].color = "red" /\ nodes[i].children = <<>>
    /\ (last.outcome = "ok" /\ listCalls[i] > okCalls[i]) =>
         NamespacesOf(nodes[i].children) = ClusterNamespaces(kubeconfig.Contexts[i].Name)

\* C11: a toggle whose listing fails leaves the node expanded and in the
\* error state, whatever its state was before.
C11_FailureNeverCollapses ==
  (last.op = "toggle" /\ pc = "run" /\ last.outcome \in ListErrors) =>
    nodes[last.node].expanded /\ nodes[last.node].color = "red"

\* C12: no failure of a namespace listing ends the process; after the toggle
\* the session still runs.
C12_ListingFailureIsLocal ==
  (last.op = "toggle" /\ last.outcome # "ok") => pc = "run" /\ exit = "none"

\* C13: selecting a namespace node calls switchContext once, with the context
\* of the node's parent and the namespace the node displays, and ends the
\* session; a switch that returns has written exactly that pair.
C13_SelectSwitchesToOwnPair ==
  last.op = "select" =>
    LET i == last.node
        n == nodes[i].children[last.child]
    IN /\ switchCalls = <<[context |-> kubeconfig.Contexts[i].Name, namespace |-> n.text]>>
       /\ stopped
       /\ pc = "exited"
       /\ exit = "ok" => /\ file.current = kubeconfig.Contexts[i].Name
                         /\ file.ns[kubeconfig.Contexts[i].Name] = n.text

C13_Witness ==
  /\ last.op = "select"
  /\ exit = "ok"
  /\ last.child >= 2
  /\ \E j \in 1..Len(nodes) : j # last.node /\ nodes[j].children # <<>>
  /\ file.ns[file.current] = nodes[last.node].children[last.child].text
  /\ file.ns[file.current] # RecordedNamespace(file.current)

\* The target the argument rules of lines 131-144 name, written out per rule.
QuickTargets ==
  LET a == Tail(osArgs) IN
  IF Len(a) = 1 /\ SepPositions(a[1]) = {}
    THEN {[context |-> kubeconfig.ActiveContext, namespace |-> a[1]]}
  ELSE IF Len(a) = 1 /\ Cardinality(SepPositions(a[1])) = 1
    THEN LET p == CHOOSE k \in SepPositions(a[1]) : TRUE
         IN IF SubSeq(a[1], 1, p - 1) \in ContextNames(kubeconfig)
            THEN {[context |-> SubSeq(a[1], 1, p - 1),
                   namespace |-> SubSeq(a[1], p + 1, Len(a[1]))]}
            ELSE {}
  ELSE IF Len(a) = 2 /\ a[1] \in ContextNames(kubeconfig)
    THEN {[context |-> a[1], namespace |-> a[2]]}
  ELSE {}

QuickSwitched ==
  file.kind = "valid" /\ pc \notin {"loadConfig", "quickSwitch"} /\ QuickTargets # {}

\* C14 as claimed: once quickSwitch has derived a target, switchContext was
\* called once with it, the process has ended with status 0, and no tree was
\* built and no listing issued.
C14_QuickSwitchExitsZero ==
  QuickSwitched =>
    /\ Len(switchCalls) = 1
    /\ switchCalls[1] \in QuickTargets
    /\ pc = "exited"
    /\ exit = "ok"
    /\ nodes = <<>>
    /\ listCalls = <<>>

\* C14 as amended: the same, with status 0 exactly when switchContext
\* returned and a failure status (fatal or panic) otherwise.
C14_QuickSwitchEndsProcess ==
  QuickSwitched =>
    /\ Len(switchCalls) = 1
    /\ switchCalls[1] \in QuickTargets
    /\ pc = "exited"
    /\ exit \in {"ok", "fatal", "panic"}
    /\ exit = "ok" <=> last.outcome = "returned"
    /\ last.op = "quickSwitch"
    /\ nodes = <<>>
    /\ listCalls = <<>>

C14_Witness ==
  /\ QuickSwitched
  /\ exit = "fatal"
  /\ Len(osArgs) = 3
  /\ switchCalls = <<[context |-> osArgs[2], namespace |-> osArgs[3]]>>

\* C15: with an empty configuration file the only step is the fatal end of
\* loadConfig: no quick switch, no tree, no write of the file.
C15_EmptyFileIsFatal ==
  [][file.kind = "empty" =>
       /\ pc' = "exited"
       /\ exit' = "fatal"
       /\ last'.op = "loadConfig"
       /\ switchCalls' = <<>>
       /\ nodes' = <<>>
       /\ kubeconfig' = EmptyConfig
       /\ file' = file]_vars

C15_Witness ==
  /\ file.kind = "empty"
  /\ Len(osArgs) = 2
  /\ pc = "exited"
  /\ exit = "fatal"
  /\ last.op = "loadConfig"
  /\ last.outcome = "empty"

\* C16: the node the tree view highlights is the root until a context is
\* populated, and after a population that created a namespace node named as
\* the context's recorded namespace it is that node.
C16_HighlightIsActiveNamespace ==
  pc = "run" =>
    /\ (\A i \in 1..Len(nodes) : okCalls[i] = 0) => currentNode = Root
    /\ (last.op = "toggle" /\ last.outcome = "ok"
        /\ \E k \in 1..Len(ClusterNamespaces(kubeconfig.Contexts[last.node].Name)) :
             ClusterNamespaces(kubeconfig.Contexts[last.node].Name)[k]
               = kubeconfig.Contexts[last.node].ActiveNamespace)
       => /\ currentNode[1] = last.node
          /\ currentNode[2] \in 1..Len(nodes[last.node].children)
          /\ nodes[last.node].children[currentNode[2]].text
               = kubeconfig.Contexts[last.node].ActiveNamespace

\* C17: after a toggle whose listing succeeds the context node shows the
\* active state and label if it is the active context, and otherwise the
\* normal (populated) colour and its plain label, also after earlier failures.
C17_SuccessRestoresLabel ==
  (last.op = "toggle" /\ pc = "run" /\ last.outcome = "ok") =>
    LET n == nodes[last.node] IN
    IF kubeconfig.Contexts[last.node].Name = kubeconfig.ActiveContext
    THEN n.color = "green" /\ n.text = ActiveText
    ELSE n.color = "turquoise" /\ n.text = PlainText

\* C18: contextExists holds of a name exactly when the loaded configuration
\* lists a context of that name, so not of the empty string when no context
\* has the empty name.
\* (kubeconfig is assigned by loadConfig alone, so its values are those of
\* the states up to the end of quickSwitch, where contextExists is called.)
C18_ContextExistsIffListed ==
  last.op \in {"none", "loadConfig", "quickSwitch"} =>
    \A name \in ArgStrings :
      contextExists(kubeconfig, name)
        <=> (pc # "loadConfig" /\ file.kind = "valid" /\ name \in Range(file.order))

C18_Witness ==
  /\ last.op = "quickSwitch"
  /\ Len(osArgs) = 3
  /\ Len(kubeconfig.Contexts) = 2
  /\ osArgs[2] = kubeconfig.Contexts[2].Name
  /\ contextExists(kubeconfig, osArgs[2])
  /\ ~contextExists(kubeconfig, EmptyStr)
  /\ switchCalls # <<>>

\* C19: only a namespace selection or a quick switch writes the file; a
\* context-node selection leaves the file as it is, whatever the listing did.
C19_OnlySwitchesWriteFile ==
  [][/\ last'.op = "toggle" => file' = file
     /\ file' # file => /\ last'.op \in {"select", "quickSwitch"}
                        /\ switchCalls' # switchCalls]_vars

C19_Witness ==
  /\ last.op = "toggle"
  /\ pc = "run"
  /\ toggles >= 3
  /\ \E i \in 1..Len(nodes) : okCalls[i] > 0 /\ listCalls[i] > okCalls[i]
  /\ kubeconfig.ActiveContext # kubeconfig.Contexts[last.node].Name
  /\ file.current = kubeconfig.ActiveContext
  /\ \A k \in 1..Len(kubeconfig.Contexts) :
       file.ns[kubeconfig.Contexts[k].Name] = kubeconfig.Contexts[k].ActiveNamespace

\* C20: while a context node is expanded, expandedNode is that node (it may
\* be the placeholder or a collapsed node when none is expanded).
C20_ExpandedNodeIsTheExpanded ==
  \A i \in Expanded(nodes) : expandedNode = i

C20_Witness ==
  /\ last.op = "toggle"
  /\ pc = "run"
  /\ last.was # {}
  /\ last.node \notin last.was
  /\ nodes[last.node].expanded
  /\ expandedNode = last.node
  /\ listCalls[last.node] >= 2

\* ------------------------------------------------------------ specification
Next ==
  \/ loadConfig
  \/ \E io \in SwitchIO : quickSwitch(io)
  \/ buildTree
  \/ \E i \in 1..Len(nodes), outcome \in ListOutcomes : contextSelected(i, outcome)
  \/ \E i \in 1..Len(nodes) : \E k \in 1..Len(nodes[i].children), io \in SwitchIO :
       namespaceSelected(i, k, io)

Spec == Init /\ [][Next]_vars
====
